---- MODULE Spec2Model ----
(***************************************************************************)
(* A model of problem-builder's answer-aggregation and feedback engine:    *)
(*   - the feedback decision of MentoringBlock._get_standard_results,      *)
(*   - the step registry of mixins.py (step_ids, siblings, step_number,    *)
(*     lonely_child, display_name_with_default),                           *)
(*   - the message resolver (MessageParentMixin.get_message_content),      *)
(*   - the tree walk and the CSV export of tasks.py,                       *)
(*   - the student-state projection (build_user_state_data).               *)
(* Each component has its own specification over the shared variables;     *)
(* a component's variables stay at their idle value in the others.         *)
(* Text is a sequence of one-character strings.                            *)
(***************************************************************************)
EXTENDS Integers, Sequences, FiniteSets, TLC

VARIABLES
    \* feedback decision engine (MentoringBlock)
    student_results,        \* the block's persisted student_results field
    hide_option,            \* get_option('pb_hide_feedback_if_attempts_remain')
    max_attempts_reached,   \* the block's max_attempts_reached property
    standard_results,       \* what _get_standard_results last returned
    \* step registry (one parent instance, one step instance)
    children,               \* the parent's children field: usage keys, in order
    step_ids,               \* the parent instance's @lazy step_ids
    steps,                  \* the parent instance's @lazy steps
    step,                   \* the step instance the host last handed out
    last,                   \* outcome of the last property read
    \* message resolver (one parent block and its runtime)
    message_children,       \* the parent's children, as the host resolves them
    replace_jump_to_id_urls,\* the runtime's link-rewrite hook
    message_content,        \* outcome of the last get_message_content call
    \* course tree, submission store and export job
    parent,                 \* each block's parent field (0: none)
    block_type,             \* each block's scope_ids.block_type
    missing,                \* child ids for which runtime.get_block raises ItemNotFoundError
    submissions,            \* the submission store: per item type, the records it returns
    blocks_to_include,      \* outcome of the last scan_for_blocks(root)
    export_result,          \* outcome of the last export_data call
    \* student-state projector (one block instance and what its runtime resolves)
    user_state_block,       \* the block: its fields' values, its children as the host resolves them
    user_state_data         \* outcome of the last build_user_state_data call

fbVars == <<student_results, hide_option, max_attempts_reached, standard_results>>
stepVars == <<children, step_ids, steps, step, last>>
msgVars == <<message_children, replace_jump_to_id_urls, message_content>>
treeVars == <<parent, block_type, missing, submissions>>
exportVars == <<treeVars, blocks_to_include, export_result>>
projVars == <<user_state_block, user_state_data>>
vars == <<fbVars, stepVars, msgVars, exportVars, projVars>>

(***************************************************************************)
(* Bounds                                                                  *)
(***************************************************************************)
MaxResults == 3
NumSteps == 3
MaxMessageChildren == 3
NumNodes == 4
MaxDepth == 2
MaxQuestions == 2
MaxChildren == 2
RowSpread == 40

(***************************************************************************)
(* Text helpers                                                            *)
(***************************************************************************)
RECURSIVE str(_)
\* Python's str() of a natural number: its decimal digits.
str(n) ==
    LET digit(d) == CASE d = 0 -> "0" [] d = 1 -> "1" [] d = 2 -> "2" [] d = 3 -> "3"
                      [] d = 4 -> "4" [] d = 5 -> "5" [] d = 6 -> "6" [] d = 7 -> "7"
                      [] d = 8 -> "8" [] d = 9 -> "9"
    IN IF n < 10 THEN <<digit(n)>> ELSE str(n \div 10) \o <<digit(n % 10)>>

\* The outcome of a call: a returned value or a raised exception.
NoValue == [num |-> 0, flag |-> FALSE, text |-> <<>>]
Returned(v) == [kind |-> "ok"] @@ v
Raised(exc) == [kind |-> exc] @@ NoValue
NumV(n) == [num |-> n, flag |-> FALSE, text |-> <<>>]
FlagV(b) == [num |-> 0, flag |-> b, text |-> <<>>]
TextV(t) == [num |-> 0, flag |-> FALSE, text |-> t]

(***************************************************************************)
(* Feedback decision engine                                                *)
(***************************************************************************)
ResultEntries == {"r1", "r2"}

RECURSIVE SeqsUpTo(_, _)
\* All sequences over S of length at most n.
SeqsUpTo(S, n) ==
    IF n = 0 THEN {<<>>}
    ELSE LET shorter == SeqsUpTo(S, n - 1)
         IN shorter \cup {Append(s, x) : s \in shorter, x \in S}

\* MentoringBlock.hide_feedback
hide_feedback(option, reached) == option /\ ~reached

get_standard_results_flipped(results, option, reached) ==
    (~hide_feedback(option, reached)) \/ (Len(results) > 0)

\* MentoringBlock._get_standard_results: the show_message it returns.
get_standard_results(results, option, reached) ==
    (~hide_feedback(option, reached)) /\ (Len(results) > 0)

\* The rows of test_correctly_decides_to_show_or_hide_feedback_message:
\* (pb_hide_feedback_if_attempts_remain, max_attempts_reached, expected).
FeedbackTestData ==
    { <<TRUE, TRUE, TRUE>>, <<TRUE, FALSE, FALSE>>, <<FALSE, FALSE, TRUE>> }

FeedbackIdle ==
    /\ student_results = <<>>
    /\ hide_option = FALSE
    /\ max_attempts_reached = FALSE
    /\ standard_results = [computed |-> FALSE, show_message |-> FALSE]

FeedbackInit ==
    /\ student_results \in SeqsUpTo(ResultEntries, MaxResults)
    /\ hide_option \in BOOLEAN
    /\ max_attempts_reached \in BOOLEAN
    /\ standard_results = [computed |-> FALSE, show_message |-> FALSE]

GetStandardResults ==
    /\ ~standard_results.computed
    /\ standard_results' =
          [computed |-> TRUE,
           show_message |-> get_standard_results(student_results, hide_option,
                                                 max_attempts_reached)]
    /\ UNCHANGED <<student_results, hide_option, max_attempts_reached>>

(***************************************************************************)
(* Step registry                                                           *)
(***************************************************************************)
NoneQ == "None"

\* A usage key; branch and version_guid are NoneQ when the key carries none.
UsageKey(t, n, b, v) == [block_type |-> t, block_id |-> n, branch |-> b, version_guid |-> v]

\* The two ways the host qualifies the keys it hands out.
Qualifiers == { [branch |-> NoneQ, version_guid |-> NoneQ],
                [branch |-> "draft-branch", version_guid |-> "v1"] }

Qualified(b, q) == UsageKey(b.block_type, b.block_id, q.branch, q.version_guid)

normalize_id_branch_only(key) == [key EXCEPT !.branch = NoneQ]

\* _normalize_id: key.for_branch(None).for_version(None)
normalize_id(key) == [key EXCEPT !.branch = NoneQ, !.version_guid = NoneQ]

QuestionTypes == {"pb-mcq", "pb-rating", "pb-answer"}

\* child_isinstance(block, child_id, QuestionMixin): decided by the key's block type.
child_isinstance_question(child_id) == child_id.block_type \in QuestionTypes

\* The blocks that may appear under the parent: NumSteps questions and one html block.
StepBlocks == { [block_type |-> "pb-mcq", block_id |-> n] : n \in 1..NumSteps }
ChildBlocks == StepBlocks \cup { [block_type |-> "html", block_id |-> 0] }

\* Child lists of the content store: every block is listed at most once.
ChildLists ==
    UNION { { f \in [1..k -> ChildBlocks] : \A i, j \in 1..k : f[i] = f[j] => i = j }
            : k \in 0..Cardinality(ChildBlocks) }

RECURSIVE MapNormalize(_)
MapNormalize(s) ==
    IF s = <<>> THEN <<>> ELSE <<normalize_id(Head(s))>> \o MapNormalize(Tail(s))

\* StepParentMixin.step_ids, computed from the children field.
compute_step_ids(ch) == MapNormalize(SelectSeq(ch, child_isinstance_question))

\* @lazy: a property computed on first read and then kept on the instance.
Unset(v) == [computed |-> FALSE, value |-> v]
Cached_not_kept(v) == [computed |-> FALSE, value |-> v]
Cached(v) == [computed |-> TRUE, value |-> v]

read_step_ids_uncached == compute_step_ids(children)

\* Reading parent.step_ids: the cached list, or the list computed now.
read_step_ids == IF step_ids.computed THEN step_ids.value ELSE compute_step_ids(children)

\* QuestionMixin.siblings: self.get_parent().step_ids, lazily.
read_siblings == IF step.siblings.computed THEN step.siblings.value ELSE read_step_ids

\* list.index(x): the 0-based position of the first element equal to x, or ValueError.
index(s, x) ==
    IF \E i \in 1..Len(s) : s[i] = x
    THEN Returned(NumV((CHOOSE i \in 1..Len(s) : s[i] = x /\ \A j \in 1..(i - 1) : s[j] # x) - 1))
    ELSE Raised("ValueError")

\* EnumerableChildMixin.step_number
step_number(siblings, usage_id) ==
    LET at == index(siblings, normalize_id(usage_id))
    IN IF at.kind = "ok" THEN Returned(NumV(at.num + 1)) ELSE at

lonely_child_unchecked(siblings, usage_id) == Returned(FlagV(Len(siblings) = 1))

\* EnumerableChildMixin.lonely_child
lonely_child(siblings, usage_id) ==
    IF ~(\E i \in 1..Len(siblings) : siblings[i] = normalize_id(usage_id))
    THEN Raised("ValueError")
    ELSE Returned(FlagV(Len(siblings) = 1))

\* QuestionMixin.CAPTION
CAPTION == <<"Q", "u", "e", "s", "t", "i", "o", "n">>

\* The i18n service's ugettext, as the unit tests install it.
ugettext(text) == text

\* u"{child_caption} {number}".format(child_caption=..., number=...)
format_caption_number(caption, number) == caption \o <<" ">> \o str(number)

CustomTitle == <<"T", "i", "t", "l", "e">>
DisplayNames == { <<>>, CustomTitle }

\* Reading step.step_number / step.lonely_child through their @lazy caches.
read_step_number ==
    IF step.step_number.computed THEN Returned(NumV(step.step_number.value))
    ELSE step_number(read_siblings, step.usage_id)

read_lonely_child ==
    IF step.lonely_child.computed THEN Returned(FlagV(step.lonely_child.value))
    ELSE lonely_child(read_siblings, step.usage_id)

display_name_numbered_always ==
    IF step.display_name # <<>> THEN Returned(TextV(step.display_name))
    ELSE LET n == read_step_number
         IN IF n.kind # "ok" THEN n
            ELSE Returned(TextV(ugettext(format_caption_number(CAPTION, n.num))))

display_name_checked_first ==
    LET lonely == read_lonely_child
    IN IF lonely.kind # "ok" THEN lonely
       ELSE IF step.display_name # <<>> THEN Returned(TextV(step.display_name))
       ELSE IF ~lonely.flag
            THEN LET n == read_step_number
                 IN IF n.kind # "ok" THEN n
                    ELSE Returned(TextV(ugettext(format_caption_number(CAPTION, n.num))))
            ELSE Returned(TextV(ugettext(CAPTION)))

\* EnumerableChildMixin.display_name_with_default
display_name_with_default ==
    IF step.display_name # <<>> THEN Returned(TextV(step.display_name))
    ELSE LET lonely == read_lonely_child
         IN IF lonely.kind # "ok" THEN lonely
            ELSE IF ~lonely.flag
                 THEN LET n == read_step_number
                      IN IF n.kind # "ok" THEN n
                         ELSE Returned(TextV(ugettext(format_caption_number(CAPTION, n.num))))
                 ELSE Returned(TextV(ugettext(CAPTION)))

NoStep ==
    [live |-> FALSE, usage_id |-> UsageKey("none", 0, NoneQ, NoneQ), display_name |-> <<>>,
     siblings |-> Unset(<<>>), step_number |-> Unset(0), lonely_child |-> Unset(FALSE)]

NoRead == [op |-> "none"] @@ Raised("none")

StepsIdle ==
    /\ children = <<>>
    /\ step_ids = Unset(<<>>)
    /\ steps = Unset(<<>>)
    /\ step = NoStep
    /\ last = NoRead

StepsInit ==
    /\ \E list \in ChildLists, q \in Qualifiers :
          children = [i \in DOMAIN list |-> Qualified(list[i], q)]
    /\ step_ids = Unset(<<>>)
    /\ steps = Unset(<<>>)
    /\ step = NoStep
    /\ last = NoRead

\* The parent before its children are edited: it lists none but the first
\* NumSteps - 1 questions; the host may still hand out an instance of the last.
EditsInit ==
    /\ \E list \in { l \in ChildLists : \A i \in DOMAIN l : l[i].block_id < NumSteps },
          q \in Qualifiers :
          children = [i \in DOMAIN list |-> Qualified(list[i], q)]
    /\ step_ids = Unset(<<>>)
    /\ steps = Unset(<<>>)
    /\ step = NoStep
    /\ last = NoRead

\* The host hands out a fresh instance of a question block that names this parent.
GetBlock ==
    \E b \in StepBlocks, q \in Qualifiers, title \in DisplayNames :
        /\ step' = [NoStep EXCEPT !.live = TRUE, !.usage_id = Qualified(b, q),
                                  !.display_name = title]
        /\ last' = NoRead
        /\ UNCHANGED <<children, step_ids, steps>>

\* parent.step_ids
ReadStepIds ==
    /\ step_ids' = Cached(read_step_ids)
    /\ last' = [op |-> "step_ids"] @@ Returned(NumV(Len(read_step_ids)))
    /\ UNCHANGED <<children, steps, step>>

\* What reading step.siblings leaves on the two instances.
SiblingsRead(s) ==
    /\ step_ids' = IF step.siblings.computed THEN step_ids ELSE Cached(read_step_ids)
    /\ s.siblings = Cached(read_siblings)

\* step.step_number
ReadStepNumber ==
    /\ step.live
    /\ LET out == read_step_number
       IN /\ last' = [op |-> "step_number"] @@ out
          /\ IF step.step_number.computed
             THEN UNCHANGED <<step, step_ids>>
             ELSE \E s \in {[step EXCEPT !.siblings = Cached(read_siblings),
                                         !.step_number = IF out.kind = "ok"
                                                         THEN Cached(out.num) ELSE @]} :
                     /\ step' = s
                     /\ SiblingsRead(s)
    /\ UNCHANGED <<children, steps>>

\* step.lonely_child
ReadLonelyChild ==
    /\ step.live
    /\ LET out == read_lonely_child
       IN /\ last' = [op |-> "lonely_child"] @@ out
          /\ IF step.lonely_child.computed
             THEN UNCHANGED <<step, step_ids>>
             ELSE \E s \in {[step EXCEPT !.siblings = Cached(read_siblings),
                                         !.lonely_child = IF out.kind = "ok"
                                                          THEN Cached(out.flag) ELSE @]} :
                     /\ step' = s
                     /\ SiblingsRead(s)
    /\ UNCHANGED <<children, steps>>

\* step.display_name_with_default
ReadDisplayName ==
    /\ step.live
    /\ LET out == display_name_with_default
           lonely == read_lonely_child
           number == read_step_number
           readsLonely == step.display_name = <<>>
           readsNumber == readsLonely /\ lonely.kind = "ok" /\ ~lonely.flag
       IN /\ last' = [op |-> "display_name_with_default"] @@ out
          /\ IF ~readsLonely \/ (step.lonely_child.computed
                                 /\ (~readsNumber \/ step.step_number.computed))
             THEN UNCHANGED <<step, step_ids>>
             ELSE \E s \in {[step EXCEPT
                               !.siblings = Cached(read_siblings),
                               !.lonely_child = IF lonely.kind = "ok"
                                                THEN Cached(lonely.flag) ELSE @,
                               !.step_number = IF readsNumber /\ number.kind = "ok"
                                               THEN Cached(number.num) ELSE @]} :
                     /\ step' = s
                     /\ SiblingsRead(s)
    /\ UNCHANGED <<children, steps>>

\* self.runtime.get_block(child_id) for the ids of a step list: the blocks, named by
\* their ids, or ItemNotFoundError when the content store no longer has one of them.
get_blocks(ids) ==
    IF \A i \in DOMAIN ids : \E j \in DOMAIN children : normalize_id(children[j]) = ids[i]
    THEN "ok" ELSE "ItemNotFoundError"

\* parent.steps: computed from step_ids on the first read that succeeds.
ReadSteps ==
    /\ step_ids' = Cached(read_step_ids)
    /\ IF steps.computed
       THEN /\ last' = [op |-> "steps"] @@ Returned(NumV(Len(steps.value)))
            /\ UNCHANGED steps
       ELSE IF get_blocks(read_step_ids) = "ok"
       THEN /\ steps' = Cached(read_step_ids)
            /\ last' = [op |-> "steps"] @@ Returned(NumV(Len(read_step_ids)))
       ELSE /\ last' = [op |-> "steps"] @@ Raised("ItemNotFoundError")
            /\ UNCHANGED steps
    /\ UNCHANGED <<children, step>>

\* An author removes a child from the parent's children field in the content store;
\* the instances in memory are not told.
RemoveChild ==
    /\ \E i \in DOMAIN children :
          children' = SubSeq(children, 1, i - 1) \o SubSeq(children, i + 1, Len(children))
    /\ last' = NoRead
    /\ UNCHANGED <<step_ids, steps, step>>

\* A new request: the host builds fresh instances, whose @lazy attributes are unset.
NewRequest ==
    /\ step_ids.computed \/ step.live
    /\ step_ids' = Unset(<<>>)
    /\ steps' = Unset(<<>>)
    /\ step' = NoStep
    /\ last' = NoRead
    /\ UNCHANGED children

(***************************************************************************)
(* Message resolver                                                        *)
(***************************************************************************)
\* MentoringMessageBlock.MESSAGE_TYPES: the default content of each message type.
MESSAGE_TYPES ==
    [completed |-> <<"Great", "job!">>,
     incomplete |-> <<"Not", "quite!">>,
     max_attempts_reached |-> <<"Sorry,", "no", "attempts", "left.">>]

\* The message types asked for and authored: two of the table and the unit test's.
MessageTypes == {"completed", "incomplete", "bogus"}

\* Authored content; "test" is the link the unit test's hook rewrites.
Contents == { <<"test">>, <<"see", "test">> }

\* What runtime.get_block(child_id) does for a child of the parent: it returns
\* the block, returns None, or raises ItemNotFoundError.
MessageChildren ==
    { [block_type |-> "pb-message", get_block |-> "block", type |-> t, content |-> c]
        : t \in MessageTypes, c \in Contents }
    \cup { [block_type |-> "pb-message", get_block |-> g, type |-> "completed", content |-> <<>>]
        : g \in {"None", "ItemNotFoundError"} }
    \cup { [block_type |-> "pb-mcq", get_block |-> "block", type |-> "none", content |-> <<>>] }

\* getattr(self.runtime, 'replace_jump_to_id_urls', None): no such attribute, an
\* attribute set to None, or a callable.
Hooks == {"absent", "None", "callable"}

\* child_isinstance(self, child_id, MentoringMessageBlock)
child_isinstance_message(child) == child.block_type = "pb-message"

\* The hook of the unit test: lambda x: x.replace('test', 'replaced-url')
replace_urls(content) ==
    [i \in DOMAIN content |-> IF content[i] = "test" THEN "replaced-url" ELSE content[i]]

\* The outcome of get_message_content: a content, None, or a raised exception.
Content(c) == [kind |-> "content", text |-> c]
None == [kind |-> "None", text |-> <<>>]
Raises(exc) == [kind |-> exc, text |-> <<>>]

\* '<p>{}</p>'.format(MentoringMessageBlock.MESSAGE_TYPES[message_type]['default'])
default_content(message_type) ==
    IF message_type \in DOMAIN MESSAGE_TYPES
    THEN Content(<<"<p>">> \o MESSAGE_TYPES[message_type] \o <<"</p>">>)
    ELSE Raises("KeyError")

\* The rewrite step of get_message_content without its getattr guard.
rewrite_unguarded(hook, content) ==
    IF hook = "callable" THEN Content(replace_urls(content))
    ELSE IF hook = "None" THEN Raises("TypeError") ELSE Raises("AttributeError")

\* Lines 113-116: the content, passed through the hook when the runtime has one.
rewrite(hook, content) ==
    IF hook = "callable" THEN Content(replace_urls(content)) ELSE Content(content)

RECURSIVE message_loop(_, _, _, _, _)
\* The for loop of get_message_content from child i on, then the default.
message_loop(ch, hook, message_type, or_default, i) ==
    IF i > Len(ch)
    THEN IF or_default THEN default_content(message_type) ELSE None
    ELSE IF ~child_isinstance_message(ch[i])
         THEN message_loop(ch, hook, message_type, or_default, i + 1)
         ELSE IF ch[i].get_block = "ItemNotFoundError" THEN Raises("ItemNotFoundError")
         ELSE IF ch[i].get_block = "None" THEN Raises("AttributeError")
         ELSE IF ch[i].type = message_type THEN rewrite(hook, ch[i].content)
         ELSE message_loop(ch, hook, message_type, or_default, i + 1)

\* MessageParentMixin.get_message_content
get_message_content(ch, hook, message_type, or_default) ==
    message_loop(ch, hook, message_type, or_default, 1)

NoCall == [called |-> FALSE, message_type |-> "none", or_default |-> FALSE] @@ None

MessagesIdle ==
    /\ message_children = <<>>
    /\ replace_jump_to_id_urls = "absent"
    /\ message_content = NoCall

MessagesInit ==
    /\ message_children \in SeqsUpTo(MessageChildren, MaxMessageChildren)
    /\ replace_jump_to_id_urls \in Hooks
    /\ message_content = NoCall

GetMessageContent ==
    \E message_type \in MessageTypes, or_default \in BOOLEAN :
        /\ message_content' =
              [called |-> TRUE, message_type |-> message_type, or_default |-> or_default]
              @@ get_message_content(message_children, replace_jump_to_id_urls,
                                     message_type, or_default)
        /\ UNCHANGED <<message_children, replace_jump_to_id_urls>>

(***************************************************************************)
(* Course tree                                                             *)
(***************************************************************************)
Nodes == DOMAIN block_type

RECURSIVE SortedSeq(_)
\* The elements of a set of numbers in increasing order.
SortedSeq(S) ==
    IF S = {} THEN <<>>
    ELSE LET m == CHOOSE x \in S : \A y \in S : x <= y
         IN <<m>> \o SortedSeq(S \ {m})

\* block.children: the ids of the blocks whose parent is n, in the store's order.
children_of(n) == SortedSeq({ m \in Nodes : parent[m] = n })

ContextTypes == {"chapter", "sequential", "vertical"}
ContainerTypes == ContextTypes \cup {"problem-builder"}
ExportedTypes == {"pb-mcq", "pb-answer"}

\* block.has_children: containers and MCQ blocks (choices and tips) have children,
\* AnswerBlock has none.
has_children(n) == block_type[n] \in ContainerTypes \cup {"pb-mcq"}

\* type_map = {cls.__name__: cls for cls in [MCQBlock, RatingBlock, AnswerBlock]}
type_map == [MCQBlock |-> "pb-mcq", RatingBlock |-> "pb-rating", AnswerBlock |-> "pb-answer"]

\* Lines 47-50: the classes to export, from the names the caller gave.
classes_of(block_types) ==
    IF block_types = <<>> THEN { type_map[name] : name \in DOMAIN type_map }
    ELSE { type_map[block_types[i]] : i \in DOMAIN block_types }

\* isinstance(block, block_types)
isinstance(n, classes) == block_type[n] \in classes

\* The usage key of block n.
usage_id(n) == UsageKey(block_type[n], n, NoneQ, NoneQ)

\* The display_name field of a container block.
display_name(n) == <<"N">> \o str(n)

\* block.display_name_with_default: a question without an authored title is titled
\* by EnumerableChildMixin from its parent's step_ids; a container by its field.
title_of(n) ==
    IF block_type[n] \in QuestionTypes
    THEN LET ids == children_of(parent[n])
             siblings == compute_step_ids([i \in DOMAIN ids |-> usage_id(ids[i])])
             lonely == lonely_child(siblings, usage_id(n))
             number == step_number(siblings, usage_id(n))
         IN IF lonely.kind # "ok" THEN lonely
            ELSE IF ~lonely.flag
                 THEN IF number.kind # "ok" THEN number
                      ELSE Returned(TextV(ugettext(format_caption_number(CAPTION, number.num))))
                 ELSE Returned(TextV(ugettext(CAPTION)))
    ELSE Returned(TextV(display_name(n)))

(***************************************************************************)
(* Tree walk                                                               *)
(***************************************************************************)
except_nothing(r) == r

\* try: ... except ItemNotFoundError: pass
except_ItemNotFoundError(r) ==
    IF r.raised = "ItemNotFoundError" THEN [r EXCEPT !.raised = "none"] ELSE r

RECURSIVE scan_for_blocks(_, _, _), scan_children(_, _, _)
scan_for_blocks_descending(n, classes, acc) ==
    LET here == IF isinstance(n, classes) THEN Append(acc, n) ELSE acc
    IN IF has_children(n) THEN scan_children(children_of(n), classes, here)
       ELSE [blocks |-> here, raised |-> "none"]

\* export_data.scan_for_blocks(block), with blocks_to_include = acc on entry: the
\* list on exit and the exception that left the call, if any. The choices and
\* tips under an MCQ block are leaves of no exported class and add nothing.
scan_for_blocks(n, classes, acc) ==
    IF isinstance(n, classes) THEN [blocks |-> Append(acc, n), raised |-> "none"]
    ELSE IF has_children(n) THEN scan_children(children_of(n), classes, acc)
    ELSE [blocks |-> acc, raised |-> "none"]

\* The for loop of scan_for_blocks over the child ids that are left.
scan_children(ids, classes, acc) ==
    IF ids = <<>> THEN [blocks |-> acc, raised |-> "none"]
    ELSE LET r == except_ItemNotFoundError(
                     IF Head(ids) \in missing
                     THEN [blocks |-> acc, raised |-> "ItemNotFoundError"]
                     ELSE scan_for_blocks(Head(ids), classes, acc))
         IN IF r.raised # "none" THEN r
            ELSE scan_children(Tail(ids), classes, r.blocks)

BlockTypeFilters == { <<>>, <<"MCQBlock">>, <<"AnswerBlock">> }

NoScan == [called |-> FALSE, root |-> 0, block_types |-> <<>>, blocks |-> <<>>, raised |-> "none"]

\* scan_for_blocks(root), for a root the host resolved and a type filter.
ScanForBlocks ==
    \E root \in Nodes \ missing, block_types \in BlockTypeFilters :
        /\ blocks_to_include' =
              [called |-> TRUE, root |-> root, block_types |-> block_types]
              @@ scan_for_blocks(root, classes_of(block_types), <<>>)
        /\ UNCHANGED <<treeVars, export_result>>

(***************************************************************************)
(* CSV export                                                              *)
(***************************************************************************)
UpperCase == <<"A", "C", "D", "G", "O", "T", "V">>
LowerCase == <<"a", "c", "d", "g", "o", "t", "v">>

\* str.lower()
lower(text) ==
    [i \in DOMAIN text |->
        IF \E k \in DOMAIN UpperCase : UpperCase[k] = text[i]
        THEN LowerCase[CHOOSE k \in DOMAIN UpperCase : UpperCase[k] = text[i]]
        ELSE text[i]]

\* needle in haystack
contains(haystack, needle) ==
    \E i \in 0..(Len(haystack) - Len(needle)) :
        SubSeq(haystack, i + 1, i + Len(needle)) = needle

contains_case_sensitive(match_string, answer) == contains(answer, match_string)

\* match_string.lower() in answer.lower()
matches(match_string, answer) == contains(lower(answer), lower(match_string))

\* Answers students gave: free text, and the value of an MCQ choice.
cat == <<"c", "a", "t">>
DOG == <<"D", "O", "G">>
v1 == <<"v", "1">>
v2 == <<"v", "2">>

\* The choice blocks under every MCQ block: (value, content).
choices == << [value |-> v1, content |-> <<"C", "A", "T">>],
              [value |-> v2, content |-> <<"d", "o", "g">>],
              [value |-> v1, content |-> <<"c", "o", "w">>] >>

\* user_by_anonymous_id(student_id): the users the platform knows.
users == [s1 |-> "alice", s2 |-> "bob"]

Submission(student, answer) == [student_id |-> student, answer |-> answer]

\* What the store holds for the items of a type: latest records, in the order it
\* returns them. The user "ghost" is unknown to the platform.
SubmissionLists ==
    [ pb_mcq |-> { <<>>, << Submission("s2", v1), Submission("s1", DOG) >> },
      pb_answer |-> { <<>>, << Submission("s1", cat), Submission("s2", DOG) >>,
                      << Submission("ghost", cat) >> } ]

MatchStrings == { <<>>, <<"A">> }
UserIds == {"", "s1"}

RECURSIVE get_root_loop(_)
\* while root.parent: root = root.get_parent()
get_root_loop(n) == IF parent[n] # 0 THEN get_root_loop(parent[n]) ELSE n

RECURSIVE context_loop_nearest(_, _)
context_loop_nearest(n, names) ==
    LET ascend(named) == IF parent[n] # 0 THEN context_loop_nearest(parent[n], named)
                         ELSE [names |-> named, raised |-> "none"]
        assign(title) == IF title.kind # "ok" THEN [names |-> names, raised |-> title.kind]
                         ELSE ascend(names @@ (block_type[n] :> title.text))
    IN assign(title_of(n))

RECURSIVE context_loop(_, _)
\* The while loop of _get_context from block n up: block_names_by_type on exit.
context_loop(n, names) ==
    LET ascend(named) == IF parent[n] # 0 THEN context_loop(parent[n], named)
                         ELSE [names |-> named, raised |-> "none"]
        assign(title) == IF title.kind # "ok" THEN [names |-> names, raised |-> title.kind]
                         ELSE ascend((block_type[n] :> title.text) @@ names)
    IN assign(title_of(n))

\* dict.get(key, '')
get(names, key) == IF key \in DOMAIN names THEN names[key] ELSE <<>>

\* _get_context: (section_name, subsection_name, unit_name)
get_context(n) ==
    LET names(loop) ==
            [names |-> << get(loop.names, "chapter"), get(loop.names, "sequential"),
                          get(loop.names, "vertical") >>,
             raised |-> loop.raised]
    IN names(context_loop(n, <<>>))

\* _get_type
get_type(n) == block_type[n]

\* block.question
question(n) == <<"Q">> \o str(n)

\* _get_submissions: every record of the item, or the one record of user_id, which
\* then carries no student_id.
get_submissions(n, user_id) ==
    LET all == submissions[get_type(n)]
    IN IF user_id = "" THEN all
       ELSE LET own == SelectSeq(all, LAMBDA r : r.student_id = user_id)
            IN [i \in DOMAIN own |-> Submission("", own[i].answer)]

\* _get_username
get_username(submission, user_id) ==
    LET student_id == IF submission.student_id = "" THEN user_id ELSE submission.student_id
    IN IF student_id \in DOMAIN users THEN Returned(TextV(users[student_id]))
       ELSE Raised("AttributeError")

RECURSIVE choice_loop_last(_, _)
choice_loop_last(left, answer) ==
    IF left = <<>> THEN answer
    ELSE IF Head(left).value = answer
         THEN LET later == choice_loop_last(Tail(left), answer)
              IN IF later = answer THEN Head(left).content ELSE later
    ELSE choice_loop_last(Tail(left), answer)

RECURSIVE choice_loop(_, _)
\* The for loop of _get_answer over the choices that are left.
choice_loop(left, answer) ==
    IF left = <<>> THEN answer
    ELSE IF Head(left).value = answer THEN Head(left).content
    ELSE choice_loop(Tail(left), answer)

\* _get_answer: an AnswerBlock has no children attribute.
get_answer(n, submission) ==
    IF block_type[n] = "pb-answer" THEN submission.answer
    ELSE choice_loop(choices, submission.answer)

Row(context, n, answer, username) ==
    << context[1], context[2], context[3], get_type(n), question(n), answer, username >>

RECURSIVE submission_loop(_, _, _, _, _, _)
\* The for loop of _extract_data over the submissions that are left.
submission_loop(left, n, context, user_id, match_string, rows) ==
    IF left = <<>> THEN [rows |-> rows, raised |-> "none"]
    ELSE LET body(username, answer) ==
                 IF username.kind # "ok" THEN [rows |-> rows, raised |-> username.kind]
                 ELSE submission_loop(Tail(left), n, context, user_id, match_string,
                         IF ~matches(match_string, answer) THEN rows
                         ELSE Append(rows, Row(context, n, answer, username.text)))
         IN body(get_username(Head(left), user_id), get_answer(n, Head(left)))

\* _extract_data
extract_data(n, user_id, match_string) ==
    LET body(context) ==
            IF context.raised # "none" THEN [rows |-> <<>>, raised |-> context.raised]
            ELSE submission_loop(get_submissions(n, user_id), n, context.names, user_id,
                                 match_string, <<>>)
    IN body(get_context(n))

RECURSIVE block_loop(_, _, _, _)
\* Lines 74-76: rows += _extract_data(...) for the blocks that are left.
block_loop(left, user_id, match_string, rows) ==
    IF left = <<>> THEN [rows |-> rows, raised |-> "none"]
    ELSE LET body(results) ==
                 IF results.raised # "none" THEN [rows |-> rows, raised |-> results.raised]
                 ELSE block_loop(Tail(left), user_id, match_string, rows \o results.rows)
         IN body(extract_data(Head(left), user_id, match_string))

HEADER == <<"Section", "Subsection", "Unit", "Type", "Question", "Answer", "Username">>

\* The number of rows of the preview in the result.
PreviewLimit == 1000

preview_unlimited(rows) == IF Len(rows) = 1 THEN <<>> ELSE Tail(rows)

\* rows[1:1001]
preview(rows) ==
    IF Len(rows) = 1 THEN <<>>
    ELSE SubSeq(rows, 2, IF Len(rows) < PreviewLimit + 1 THEN Len(rows) ELSE PreviewLimit + 1)

\* What export_data hands back: a result mapping, or the exception it raises.
ExportReturns(rows, blocks) ==
    [kind |-> "returned", error |-> "None", rows |-> rows,
     display_data |-> preview(rows), blocks |-> blocks]
ExportRaises(exc) ==
    [kind |-> exc, error |-> "None", rows |-> <<>>, display_data |-> <<>>, blocks |-> <<>>]

\* How lines 31-36 find the source block: the course id does not parse
\* (InvalidKeyError), get_items(...) is empty, its first item is None, or it is
\* block n.
Lookups ==
    { [found |-> "InvalidKeyError", block |-> 0], [found |-> "empty", block |-> 0],
      [found |-> "None", block |-> 0] }

\* export_data
export_data(lookup, block_types, user_id, match_string, get_root) ==
    IF lookup.found = "InvalidKeyError" THEN ExportRaises("ValueError")
    ELSE IF lookup.found = "empty" THEN ExportRaises("IndexError")
    ELSE IF lookup.found = "None" THEN ExportRaises("ValueError")
    ELSE LET root == IF get_root THEN get_root_loop(lookup.block) ELSE lookup.block
             report(data, blocks) ==
                 IF data.raised # "none" THEN ExportRaises(data.raised)
                 ELSE ExportReturns(data.rows, blocks)
             collect(walk) ==
                 IF walk.raised # "none" THEN ExportRaises(walk.raised)
                 ELSE report(block_loop(walk.blocks, user_id, match_string, <<HEADER>>),
                             walk.blocks)
         IN collect(scan_for_blocks(root, classes_of(block_types), <<>>))

NoExport ==
    [called |-> FALSE, lookup |-> [found |-> "empty", block |-> 0], block_types |-> <<>>,
     user_id |-> "", match_string |-> <<>>, get_root |-> FALSE] @@ ExportRaises("none")

\* The blocks a caller names as the source: the top of the course and the
\* problem-builder block.
SourceBlocks == { n \in Nodes : parent[n] = 0 \/ block_type[n] = "problem-builder" }

\* One run of the export job: it is invoked once.
ExportData ==
    /\ ~export_result.called
    /\ \E lookup \in Lookups \cup { [found |-> "block", block |-> n] : n \in SourceBlocks },
          block_types \in BlockTypeFilters, user_id \in UserIds,
          match_string \in MatchStrings, get_root \in BOOLEAN :
          /\ export_result' =
                [called |-> TRUE, lookup |-> lookup, block_types |-> block_types,
                 user_id |-> user_id, match_string |-> match_string, get_root |-> get_root]
                @@ export_data(lookup, block_types, user_id, match_string, get_root)
          /\ UNCHANGED <<treeVars, blocks_to_include>>

\* A well-formed tree over 1..n: block 1 is the top, a parent precedes its
\* children, questions are leaves under a problem-builder block, an AnswerBlock
\* has no children, and only leaves below the top may fail to resolve.
\* A block with children is of a type that has children; questions lie under a
\* problem-builder block or, as the content store allows, under an MCQ block.
WellFormed(p, t, gone) ==
    /\ t[1] \notin ExportedTypes
    /\ \A m \in DOMAIN t \ {1} :
          /\ t[p[m]] # "pb-answer"
          /\ t[p[m]] = "pb-mcq" => t[m] \in ExportedTypes
          /\ t[m] \in ExportedTypes => t[p[m]] \in {"problem-builder", "pb-mcq"}
    /\ \A m \in gone : m # 1 /\ \A k \in DOMAIN t : p[k] # m

ExportIdle ==
    /\ parent = <<0>>
    /\ block_type = <<"problem-builder">>
    /\ missing = {}
    /\ submissions = [t \in ExportedTypes |-> <<>>]
    /\ blocks_to_include = NoScan
    /\ export_result = NoExport

\* Any tree of NumNodes blocks, for the walk.
WalkInit ==
    /\ parent \in { p \in [1..NumNodes -> 0..NumNodes] :
                      p[1] = 0 /\ \A m \in 2..NumNodes : p[m] \in 1..(m - 1) }
    /\ block_type \in [1..NumNodes -> {"vertical", "problem-builder"} \cup ExportedTypes]
    /\ missing \in SUBSET (2..NumNodes)
    /\ WellFormed(parent, block_type, missing)
    /\ submissions = [t \in ExportedTypes |-> <<>>]
    /\ blocks_to_include = NoScan
    /\ export_result = NoExport

\* The i-th data row an export collected.
DataRow(i) == << <<>>, <<>>, <<>>, "pb-answer", question(i), cat, "alice" >>

\* How many data rows an export may have collected: few, or about PreviewLimit.
RowCounts == (0..RowSpread) \cup ((PreviewLimit - RowSpread)..(PreviewLimit + RowSpread))

\* Lines 69-92 of export_data for n collected data rows: the header and the rows go
\* to the report store, the preview into the result.
StoreRows ==
    /\ ~export_result.called
    /\ \E n \in RowCounts :
          export_result' =
              [called |-> TRUE, lookup |-> [found |-> "block", block |-> 1],
               block_types |-> <<>>, user_id |-> "", match_string |-> <<>>, get_root |-> FALSE]
              @@ ExportReturns(<<HEADER>> \o [i \in 1..n |-> DataRow(i)], <<>>)
    /\ UNCHANGED <<treeVars, blocks_to_include>>

\* A course for the export: up to MaxDepth nested sections, subsections and units
\* over one problem-builder block with up to MaxQuestions questions, of which one
\* may fail to resolve; and a submission store.
CourseInit ==
    /\ \E above \in SeqsUpTo(ContextTypes, MaxDepth),
          below \in SeqsUpTo(ExportedTypes, MaxQuestions) :
          LET d == Len(above) + 1
              n == d + Len(below)
          IN /\ parent = [m \in 1..n |-> IF m <= d THEN m - 1 ELSE d]
             /\ block_type = [m \in 1..n |-> IF m < d THEN above[m]
                                             ELSE IF m = d THEN "problem-builder"
                                             ELSE below[m - d]]
             /\ missing \in { {} } \cup { {m} : m \in (d + 1)..n }
    /\ \E mcq \in SubmissionLists.pb_mcq, answer \in SubmissionLists.pb_answer :
          submissions = ("pb-mcq" :> mcq) @@ ("pb-answer" :> answer)
    /\ blocks_to_include = NoScan
    /\ export_result = NoExport

(***************************************************************************)
(* Student-state projector                                                 *)
(***************************************************************************)
StudentViewUserStateMixin == "StudentViewUserStateMixin"
StudentViewUserStateResultsTransformerMixin == "StudentViewUserStateResultsTransformerMixin"

NESTED_BLOCKS_KEY == "components"
INCLUDE_SCOPES == { "user_state", "user_info", "preferences" }

\* The scope each declared field has.
scope == [student_results |-> "user_state", student_input |-> "user_state",
          display_name |-> "content"]

\* del dictionary[key], a missing key left alone.
delete_key(dictionary, key) == [k \in (DOMAIN dictionary) \ {key} |-> dictionary[k]]

\* The choices of one result with their tips deleted; a result without choices
\* has none to visit.
strip_choices(results) ==
    IF "choices" \in DOMAIN results
    THEN [results EXCEPT !["choices"] = [j \in DOMAIN @ |-> delete_key(@[j], "tips")]]
    ELSE results

transform_student_results(value) ==
    [i \in DOMAIN value |-> << value[i][1], delete_key(strip_choices(value[i][2]), "tips") >>]

\* The transform of a field: the class's transforms() entry, the identity without one.
transforms(block, name, value) ==
    IF StudentViewUserStateResultsTransformerMixin \in block.mixins /\ name = "student_results"
    THEN transform_student_results(value)
    ELSE value

\* The fields the projection copies.
included(block) ==
    { name \in block.fields : scope[name] \in INCLUDE_SCOPES /\ name \in block.USER_STATE_FIELDS }

\* The loop over the fields: the result so far.
fields_loop(block) == [name \in included(block) |-> transforms(block, name, block.values[name])]

\* The block after the loop over the fields: the transform deletes keys of the very
\* dictionaries the field holds.
fields_after(block) ==
    [block EXCEPT !.values =
        [name \in DOMAIN @ |-> IF name \in included(block) THEN transforms(block, name, @[name])
                               ELSE @[name]]]

hasattr_build_user_state_data(child) ==
    child.get_block = "block" /\ StudentViewUserStateMixin \in child.block.mixins

NoComponents == [k \in {} |-> <<>>]

RECURSIVE build_user_state_data(_)
RECURSIVE children_loop(_, _, _)
\* The loop over the children from position i on, with the components so far:
\* what the loop ends with, and the children as the calls leave them.
children_loop(kids, i, components) ==
    IF i > Len(kids) THEN [raised |-> "none", components |-> components, children |-> kids]
    ELSE IF kids[i].get_block = "ItemNotFoundError"
    THEN [raised |-> "ItemNotFoundError", components |-> components, children |-> kids]
    ELSE IF ~hasattr_build_user_state_data(kids[i])
    THEN children_loop(kids, i + 1, components)
    ELSE LET nested == build_user_state_data(kids[i].block)
             after == [kids EXCEPT ![i].block = nested.block]
         IN IF nested.raised # "none"
            THEN [raised |-> nested.raised, components |-> components, children |-> after]
            ELSE children_loop(after, i + 1,
                     (str(kids[i].child_id) :> nested.result) @@ components)

\* What the call ends with (the mapping it returns or the exception it raises) and the
\* block as the call leaves it.
build_user_state_data(block) ==
    LET result == fields_loop(block)
        self == fields_after(block)
    IN IF ~self.has_children
       THEN [raised |-> "none", result |-> result, block |-> self]
       ELSE LET loop == children_loop(self.children, 1, NoComponents)
                left == [self EXCEPT !.children = loop.children]
            IN IF loop.raised # "none"
               THEN [raised |-> loop.raised, result |-> NoComponents, block |-> left]
               ELSE [raised |-> "none",
                     result |-> (NESTED_BLOCKS_KEY :> loop.components) @@ result,
                     block |-> left]

\* Stored student_results values: none, one result with tips on the result and on a
\* choice, one result that carries no tips.
StudentResults ==
    { <<>>,
      << << "q1", [status |-> "correct", tips |-> "t1",
                   choices |-> << [value |-> "a", tips |-> "t2"] >>] >> >>,
      << << "q2", [status |-> "partial"] >> >> }

AllowLists == { {}, {"student_results", "display_name"} }

Values(results, input) ==
    [student_results |-> results, student_input |-> input, display_name |-> "title"]

\* A question block: provides the view, has no children.
QuestionBlock(id) ==
    [usage_id |-> id, mixins |-> {StudentViewUserStateMixin}, has_children |-> FALSE,
     USER_STATE_FIELDS |-> {"student_input"}, fields |-> {"student_input", "display_name"},
     values |-> Values(<<>>, "x"), children |-> <<>>]

\* A block of another library: does not provide the view.
HtmlBlock(id) ==
    [usage_id |-> id, mixins |-> {}, has_children |-> FALSE,
     USER_STATE_FIELDS |-> {}, fields |-> {"display_name"},
     values |-> Values(<<>>, ""), children |-> <<>>]

\* A container block (mentoring block, step block) with the results transform.
ContainerBlock(id, allow, results, kids) ==
    [usage_id |-> id,
     mixins |-> {StudentViewUserStateMixin, StudentViewUserStateResultsTransformerMixin},
     has_children |-> TRUE,
     USER_STATE_FIELDS |-> allow, fields |-> {"student_results", "display_name"},
     values |-> Values(results, ""), children |-> kids]

NoBlock == HtmlBlock(0)

\* What the runtime does with a child id: returns a block, returns None, or raises.
ChildRef(id, outcome, block) == [child_id |-> id, get_block |-> outcome, block |-> block]

LeafRefs(id) ==
    { ChildRef(id, "ItemNotFoundError", NoBlock), ChildRef(id, "None", NoBlock),
      ChildRef(id, "block", HtmlBlock(id)), ChildRef(id, "block", QuestionBlock(id)) }

\* The child lists of a block whose ids start after base: children that are leaves.
LeafLists(base, n) ==
    UNION { { kids \in [1..len -> UNION { LeafRefs(base + i) : i \in 1..len }] :
                \A i \in 1..len : kids[i].child_id = base + i } : len \in 0..n }

ChildRefs(id) ==
    LeafRefs(id) \cup
    { ChildRef(id, "block", ContainerBlock(id, {"student_results"}, results, kids)) :
        results \in { <<>>, << << "q2", [status |-> "partial", tips |-> "t3"] >> >> },
        kids \in LeafLists(10 * id, MaxChildren - 1) }

ChildRefLists ==
    UNION { { kids \in [1..len -> UNION { ChildRefs(i) : i \in 1..len }] :
                \A i \in 1..len : kids[i].child_id = i } : len \in 0..MaxChildren }

NoProjection == [called |-> FALSE, raised |-> "none", result |-> NoComponents]

ProjectionIdle ==
    /\ user_state_block = NoBlock
    /\ user_state_data = NoProjection

ProjectionInit ==
    /\ \E allow \in AllowLists, results \in StudentResults, kids \in ChildRefLists,
          container \in BOOLEAN :
          user_state_block = [ContainerBlock(0, allow, results, kids)
                                EXCEPT !.has_children = container]
    /\ user_state_data = NoProjection

\* A call of build_user_state_data on the block.
BuildUserStateData ==
    LET call == build_user_state_data(user_state_block)
    IN /\ user_state_block' = call.block
       /\ user_state_data' = [called |-> TRUE, raised |-> call.raised, result |-> call.result]

(***************************************************************************)
(* Specifications                                                          *)
(***************************************************************************)
InitFeedback == FeedbackInit /\ StepsIdle /\ MessagesIdle /\ ExportIdle /\ ProjectionIdle
NextFeedback == GetStandardResults /\ UNCHANGED <<stepVars, msgVars, exportVars, projVars>>
SpecFeedback == InitFeedback /\ [][NextFeedback]_vars

InitSteps == StepsInit /\ FeedbackIdle /\ MessagesIdle /\ ExportIdle /\ ProjectionIdle
NextSteps ==
    \/ GetBlock /\ UNCHANGED <<fbVars, msgVars, exportVars, projVars>>
    \/ ReadStepIds /\ UNCHANGED <<fbVars, msgVars, exportVars, projVars>>
    \/ ReadStepNumber /\ UNCHANGED <<fbVars, msgVars, exportVars, projVars>>
    \/ ReadLonelyChild /\ UNCHANGED <<fbVars, msgVars, exportVars, projVars>>
    \/ ReadDisplayName /\ UNCHANGED <<fbVars, msgVars, exportVars, projVars>>
SpecSteps == InitSteps /\ [][NextSteps]_vars

\* The step registry while the authoring tree is edited.
NextEdits ==
    \/ GetBlock /\ UNCHANGED <<fbVars, msgVars, exportVars, projVars>>
    \/ ReadStepIds /\ UNCHANGED <<fbVars, msgVars, exportVars, projVars>>
    \/ ReadSteps /\ UNCHANGED <<fbVars, msgVars, exportVars, projVars>>
    \/ ReadStepNumber /\ UNCHANGED <<fbVars, msgVars, exportVars, projVars>>
    \/ ReadLonelyChild /\ UNCHANGED <<fbVars, msgVars, exportVars, projVars>>
    \/ RemoveChild /\ UNCHANGED <<fbVars, msgVars, exportVars, projVars>>
    \/ NewRequest /\ UNCHANGED <<fbVars, msgVars, exportVars, projVars>>
InitEdits == EditsInit /\ FeedbackIdle /\ MessagesIdle /\ ExportIdle /\ ProjectionIdle
SpecEdits == InitEdits /\ [][NextEdits]_vars

InitMessages == MessagesInit /\ FeedbackIdle /\ StepsIdle /\ ExportIdle /\ ProjectionIdle
NextMessages == GetMessageContent /\ UNCHANGED <<fbVars, stepVars, exportVars, projVars>>
SpecMessages == InitMessages /\ [][NextMessages]_vars

InitWalk == WalkInit /\ FeedbackIdle /\ StepsIdle /\ MessagesIdle /\ ProjectionIdle
NextWalk == ScanForBlocks /\ UNCHANGED <<fbVars, stepVars, msgVars, projVars>>
SpecWalk == InitWalk /\ [][NextWalk]_vars

InitExport == CourseInit /\ FeedbackIdle /\ StepsIdle /\ MessagesIdle /\ ProjectionIdle
NextExport == ExportData /\ UNCHANGED <<fbVars, stepVars, msgVars, projVars>>
SpecExport == InitExport /\ [][NextExport]_vars

InitReport ==
    ExportIdle /\ FeedbackIdle /\ StepsIdle /\ MessagesIdle /\ ProjectionIdle
NextReport == StoreRows /\ UNCHANGED <<fbVars, stepVars, msgVars, projVars>>
SpecReport == InitReport /\ [][NextReport]_vars

InitProjection == ProjectionInit /\ FeedbackIdle /\ StepsIdle /\ MessagesIdle /\ ExportIdle
NextProjection == BuildUserStateData /\ UNCHANGED <<fbVars, stepVars, msgVars, exportVars>>
SpecProjection == InitProjection /\ [][NextProjection]_vars

(***************************************************************************)
(* Claims: feedback decision                                               *)
(***************************************************************************)
\* C1: show_message is true iff student_results is non-empty and (the hide policy is
\* off or max attempts is reached); it is false whenever student_results is empty;
\* the rows of the unit test's decision table agree.
C1_ShowMessageRule ==
    /\ standard_results.computed =>
          /\ standard_results.show_message
                <=> (student_results # <<>> /\ (~hide_option \/ max_attempts_reached))
          /\ student_results = <<>> => ~standard_results.show_message
    /\ \A row \in FeedbackTestData :
          get_standard_results(<<"must", "be", "non-empty">>, row[1], row[2]) = row[3]

\* Feedback is shown for graded results under the hide policy once attempts ran out.
C1_Witness ==
    /\ standard_results.computed
    /\ standard_results.show_message
    /\ student_results # <<>>
    /\ hide_option
    /\ max_attempts_reached

(***************************************************************************)
(* Claims: step registry                                                   *)
(***************************************************************************)
\* The positions of the question children in the parent's children field.
StepPositions == { i \in 1..Len(children) : child_isinstance_question(children[i]) }

\* The number of question children at or before position i.
RankAmongSteps(i) == Cardinality({ j \in StepPositions : j <= i })

\* The step instance is one of the parent's listed question children.
StepIsListed ==
    /\ step.live
    /\ \E i \in StepPositions : normalize_id(children[i]) = normalize_id(step.usage_id)

\* C2: over the N question children of a parent, step_number is a bijection onto
\* 1..N: each child's number is its 1-based position in the parent's step_ids
\* (however the host qualified the child's own key), no two children share a
\* number, and every number in 1..N is taken.
C2_StepNumberBijection ==
    LET ids == read_step_ids
        N == Len(ids)
        number(i, q) == step_number(ids, Qualified(children[i], q))
    IN /\ N = Cardinality(StepPositions)
       /\ \A i \in StepPositions, q \in Qualifiers :
             /\ number(i, q).kind = "ok"
             /\ number(i, q).num = RankAmongSteps(i)
             /\ number(i, q).num \in 1..N
             /\ ids[number(i, q).num] = normalize_id(children[i])
       /\ \A i, j \in StepPositions, q \in Qualifiers :
             number(i, q).num = number(j, q).num => i = j
       /\ \A k \in 1..N : \E i \in StepPositions, q \in Qualifiers : number(i, q).num = k
       /\ (last.op = "step_number" /\ StepIsListed) =>
             /\ last.kind = "ok"
             /\ last.num \in 1..N
             /\ ids[last.num] = normalize_id(step.usage_id)

\* The second of three questions, listed after a non-question child and read through
\* a key qualified differently from the parent's list, got number 2.
C2_Witness ==
    /\ last.op = "step_number"
    /\ last.kind = "ok"
    /\ last.num = 2
    /\ Len(read_step_ids) = 3
    /\ Len(children) = 4
    /\ ~child_isinstance_question(children[1])
    /\ step.usage_id.branch # children[1].branch

\* The step's normalized id occurs in the sibling list s.
Present(s, key) == \E i \in 1..Len(s) : s[i] = normalize_id(key)

\* C3: when a step's normalized id is absent from its parent's step_ids, step_number
\* and lonely_child both raise ValueError; when it is present neither raises and
\* lonely_child is true iff step_ids has length exactly 1.
C3_AbsentRaisesPresentAnswers ==
    /\ \A b \in StepBlocks, q \in Qualifiers :
          LET own == Qualified(b, q)
              ids == read_step_ids
          IN IF Present(ids, own)
             THEN /\ step_number(ids, own).kind = "ok"
                  /\ lonely_child(ids, own).kind = "ok"
                  /\ lonely_child(ids, own).flag <=> (Len(ids) = 1)
             ELSE /\ step_number(ids, own).kind = "ValueError"
                  /\ lonely_child(ids, own).kind = "ValueError"
    /\ last.op \in {"step_number", "lonely_child"} =>
          /\ step.siblings.computed
          /\ (last.kind = "ok") <=> Present(step.siblings.value, step.usage_id)
          /\ (last.kind # "ok") => last.kind = "ValueError"
          /\ (last.op = "lonely_child" /\ last.kind = "ok") =>
                (last.flag <=> (Len(step.siblings.value) = 1))

\* lonely_child raised for a step that its parent, which has one other question, does
\* not list.
C3_Witness ==
    /\ last.op = "lonely_child"
    /\ last.kind = "ValueError"
    /\ step.siblings.computed
    /\ Len(step.siblings.value) = 1
    /\ ~Present(step.siblings.value, step.usage_id)

\* C4: display_name_with_default returns the authored title when it is non-empty;
\* otherwise the caption alone for a lonely step, and the caption followed by
\* exactly k for the k-th of N > 1 sibling steps.
C4_DisplayTitle ==
    last.op = "display_name_with_default" =>
        IF step.display_name # <<>>
        THEN last.kind = "ok" /\ last.text = step.display_name
        ELSE /\ step.siblings.computed
             /\ LET s == step.siblings.value
                IN Present(s, step.usage_id) =>
                      /\ last.kind = "ok"
                      /\ Len(s) = 1 => last.text = CAPTION
                      /\ Len(s) > 1 =>
                            \E k \in 1..Len(s) :
                                /\ s[k] = normalize_id(step.usage_id)
                                /\ Len(last.text) = Len(CAPTION) + 1 + Len(str(k))
                                /\ SubSeq(last.text, 1, Len(CAPTION)) = CAPTION
                                /\ last.text[Len(CAPTION) + 1] = " "
                                /\ SubSeq(last.text, Len(CAPTION) + 2, Len(last.text)) = str(k)

\* An untitled step, third of three, is titled "Question 3".
C4_Witness ==
    /\ last.op = "display_name_with_default"
    /\ last.kind = "ok"
    /\ step.display_name = <<>>
    /\ Len(step.siblings.value) = 3
    /\ last.text = CAPTION \o <<" ", "3">>

(***************************************************************************)
(* Claims: message resolver                                                *)
(***************************************************************************)
\* Child i resolves to a message block of the type asked for.
Matches(i, message_type) ==
    /\ child_isinstance_message(message_children[i])
    /\ message_children[i].get_block = "block"
    /\ message_children[i].type = message_type

\* Every message child before position n resolves to a block.
ResolvesBefore(n) ==
    \A i \in 1..(n - 1) :
        child_isinstance_message(message_children[i]) => message_children[i].get_block = "block"

\* C5: get_message_content returns the content of the first message child, in child
\* order, whose type equals message_type, rewritten by the runtime's hook when it
\* has one and unchanged (never an exception) when the hook is absent or None; with
\* no matching child it returns the type's default wrapped in <p>..</p> when
\* or_default is true and None when it is false; the default is never returned when
\* a matching child exists. (Message children that the host cannot resolve have no
\* type: the claim speaks of parents whose scanned message children resolve.)
C5_MessageContent ==
    message_content.called =>
        LET t == message_content.message_type
            found == { i \in 1..Len(message_children) : Matches(i, t) }
        IN IF found # {}
           THEN LET first == CHOOSE i \in found : \A j \in found : i <= j
                    authored == message_children[first].content
                IN ResolvesBefore(first) =>
                      /\ message_content.kind = "content"
                      /\ replace_jump_to_id_urls = "callable" =>
                            message_content.text = replace_urls(authored)
                      /\ replace_jump_to_id_urls # "callable" =>
                            message_content.text = authored
                      /\ t \in DOMAIN MESSAGE_TYPES =>
                            message_content.text # <<"<p>">> \o MESSAGE_TYPES[t] \o <<"</p>">>
           ELSE ResolvesBefore(Len(message_children) + 1) =>
                      /\ (message_content.or_default /\ t \in DOMAIN MESSAGE_TYPES) =>
                            /\ message_content.kind = "content"
                            /\ message_content.text = <<"<p>">> \o MESSAGE_TYPES[t] \o <<"</p>">>
                      /\ ~message_content.or_default => message_content.kind = "None"

\* With no hook on the runtime, the second of two "incomplete" messages is passed
\* over for the first, which follows a message of another type; the default is not
\* used although or_default is set.
C5_Witness ==
    /\ message_content.called
    /\ message_content.message_type = "incomplete"
    /\ message_content.or_default
    /\ replace_jump_to_id_urls = "absent"
    /\ Len(message_children) = 3
    /\ message_children[1].type = "completed" /\ message_children[1].get_block = "block"
    /\ Matches(2, "incomplete") /\ Matches(3, "incomplete")
    /\ message_children[2].content # message_children[3].content
    /\ message_content.kind = "content"
    /\ message_content.text = message_children[2].content

(***************************************************************************)
(* Claims: tree walk                                                       *)
(***************************************************************************)
RECURSIVE PathFrom(_, _)
\* The ids on the way from root (excluded) down to its descendant n.
PathFrom(root, n) == IF n = root \/ parent[n] = 0 THEN <<>> ELSE Append(PathFrom(root, parent[n]), n)

RECURSIVE Walked(_, _, _)
\* The walk from root gets to n: every block from root down to n's parent resolves,
\* is of no exported class and has children, and n itself resolves.
Walked(root, classes, n) ==
    \/ n = root
    \/ /\ parent[n] # 0
       /\ n \notin missing
       /\ ~isinstance(parent[n], classes)
       /\ has_children(parent[n])
       /\ Walked(root, classes, parent[n])

\* p comes before q in the order of a depth-first, first-child-first walk.
Before(p, q) ==
    \E k \in 1..Len(p) :
        /\ k <= Len(q)
        /\ \A j \in 1..(k - 1) : p[j] = q[j]
        /\ p[k] < q[k]

\* A child some walked block lists does not resolve.
MetMissing(root, classes) ==
    \E m \in missing :
        /\ Walked(root, classes, parent[m])
        /\ ~isinstance(parent[m], classes)
        /\ has_children(parent[m])

\* C6: a child id the host cannot resolve is skipped by the walk: the walk does not
\* raise, it goes on with the following siblings, and the result holds exactly the
\* blocks of an exported class found through the children that resolve, each once,
\* in the order of the tree.
C6_WalkSkipsMissing ==
    blocks_to_include.called =>
        LET root == blocks_to_include.root
            classes == classes_of(blocks_to_include.block_types)
            found == blocks_to_include.blocks
        IN /\ blocks_to_include.raised = "none"
           /\ { found[i] : i \in DOMAIN found }
                 = { n \in Nodes : Walked(root, classes, n) /\ isinstance(n, classes) }
           /\ \A i, j \in DOMAIN found :
                 i < j => Before(PathFrom(root, found[i]), PathFrom(root, found[j]))

\* Of three children the second does not resolve; the walk returns the first and
\* the third.
C6_Witness ==
    /\ blocks_to_include.called
    /\ blocks_to_include.root = 1
    /\ children_of(1) = <<2, 3, 4>>
    /\ missing = {3}
    /\ blocks_to_include.blocks = <<2, 4>>
    /\ blocks_to_include.raised = "none"

(***************************************************************************)
(* Claims: CSV export                                                      *)
(***************************************************************************)
\* The data rows of the last export: the stored rows without the header.
DataRows == Tail(export_result.rows)

\* The (block, record) pairs of the last export: the position of a block in the
\* walk's result and the position of a record in what the store returned for it.
Pairs ==
    UNION { { <<b, k>> : k \in DOMAIN get_submissions(export_result.blocks[b],
                                                        export_result.user_id) } :
            b \in DOMAIN export_result.blocks }

Record(pair) == get_submissions(export_result.blocks[pair[1]], export_result.user_id)[pair[2]]

\* The answer of a pair as the row shows it.
Resolved(pair) == get_answer(export_result.blocks[pair[1]], Record(pair))

\* The pairs whose answer contains the filter, whatever the case of the letters.
Surviving ==
    { pair \in Pairs : contains(lower(Resolved(pair)), lower(export_result.match_string)) }

\* The place of a surviving pair: steps in the walk's order, then the store's order.
Place(pair) ==
    1 + Cardinality({ q \in Surviving :
                        q[1] < pair[1] \/ (q[1] = pair[1] /\ q[2] < pair[2]) })

\* C7: the data rows of an export that returns are exactly the (step, record)
\* pairs whose resolved answer contains text_filter as a case-insensitive
\* substring, one row each and no others, in the walk's order of the steps and,
\* within a step, in the order the store returned the records.
C7_RowsAreMatchingPairs ==
    (export_result.called /\ export_result.kind = "returned") =>
        /\ export_result.rows[1] = HEADER
        /\ Len(DataRows) = Cardinality(Surviving)
        /\ \A pair \in Surviving :
              LET row == DataRows[Place(pair)]
                  n == export_result.blocks[pair[1]]
                  student == IF Record(pair).student_id = "" THEN export_result.user_id
                             ELSE Record(pair).student_id
              IN /\ row[4] = block_type[n]
                 /\ row[5] = question(n)
                 /\ row[6] = Resolved(pair)
                 /\ row[7] = users[student]

\* Two steps with two records each, filter "A": each step keeps the one record whose
\* answer holds an "a" in either case, the MCQ's before the answer block's.
C7_Witness ==
    /\ export_result.called
    /\ export_result.kind = "returned"
    /\ export_result.match_string = <<"A">>
    /\ export_result.user_id = ""
    /\ Len(export_result.blocks) = 2
    /\ Cardinality(Pairs) = 4
    /\ Len(DataRows) = 2
    /\ DataRows[1][4] = "pb-mcq" /\ DataRows[1][6] = <<"C", "A", "T">>
    /\ DataRows[2][4] = "pb-answer" /\ DataRows[2][6] = cat

\* The proper ancestors of block n that have type t.
RECURSIVE AncestorsOf(_)
AncestorsOf(n) == IF parent[n] = 0 THEN {} ELSE {parent[n]} \cup AncestorsOf(parent[n])
AncestorsOfType(n, t) == { a \in AncestorsOf(n) : block_type[a] = t }

\* Ancestors lie on one chain, and a parent's id is below its child's: the nearest
\* ancestor has the greatest id, the outermost the least.
Nearest(S) == CHOOSE a \in S : \A b \in S : b <= a
Outermost(S) == CHOOSE a \in S : \A b \in S : a <= b

\* The block a data row was written for.
BlockOfRow(row) == CHOOSE n \in Nodes : question(n) = row[5]

ContextColumns == << "chapter", "sequential", "vertical" >>

\* Every student whose record the store holds is known to the platform.
StudentsKnown ==
    \A t \in DOMAIN submissions : \A i \in DOMAIN submissions[t] :
        submissions[t][i].student_id \in DOMAIN users

\* C8 as claimed: the section, subsection and unit columns hold the display title of
\* the nearest ancestor of type chapter, sequential and vertical, the empty string
\* when there is none.
C8_NearestAncestor ==
    (export_result.called /\ export_result.kind = "returned") =>
        \A i \in DOMAIN DataRows, c \in 1..3 :
            LET of_type == AncestorsOfType(BlockOfRow(DataRows[i]), ContextColumns[c])
            IN DataRows[i][c] = IF of_type = {} THEN <<>> ELSE display_name(Nearest(of_type))

\* C8 as amended: the columns hold the display title of the outermost ancestor of
\* the type (the one closest to the root when several ancestors share it), the
\* empty string when there is none; and a missing ancestor type causes no error:
\* the export returns whenever the source block is found and the students are
\* known.
C8_OutermostAncestor ==
    /\ (export_result.called /\ export_result.kind = "returned") =>
          \A i \in DOMAIN DataRows, c \in 1..3 :
              LET of_type == AncestorsOfType(BlockOfRow(DataRows[i]), ContextColumns[c])
              IN DataRows[i][c] =
                    IF of_type = {} THEN <<>> ELSE display_name(Outermost(of_type))
    /\ (export_result.called /\ export_result.lookup.found = "block" /\ StudentsKnown) =>
          export_result.kind = "returned"

\* A step under two nested units and no section: the unit column names the outer
\* unit, the section column is empty.
C8_Witness ==
    /\ export_result.called
    /\ export_result.kind = "returned"
    /\ block_type[1] = "vertical" /\ block_type[2] = "vertical"
    /\ Len(DataRows) > 0
    /\ AncestorsOfType(BlockOfRow(DataRows[1]), "vertical") = {1, 2}
    /\ DataRows[1][3] = display_name(1)
    /\ DataRows[1][1] = <<>>

\* C9 as claimed: export_data never raises to its caller; every run ends by
\* returning the result mapping, and when the source block cannot be resolved the
\* mapping's error field is set.
C9_AlwaysStructuredResult ==
    export_result.called =>
        /\ export_result.kind = "returned"
        /\ export_result.lookup.found # "block" => export_result.error # "None"

(***************************************************************************)
(* Claims: student-state projector                                         *)
(***************************************************************************)
\* The children of the projected block that resolve: the runtime returns a block
\* that provides the projection.
ResolvableChildren ==
    { i \in DOMAIN user_state_block.children :
        hasattr_build_user_state_data(user_state_block.children[i]) }

\* C10 as claimed: projecting a block that has children does not raise, and under
\* the nested key it yields exactly one entry per resolvable child, keyed by the
\* stringified child id and valued by the child's own projection; a child id that
\* fails to resolve is omitted.
C10_OneEntryPerResolvableChild ==
    (user_state_data.called /\ user_state_block.has_children) =>
        /\ user_state_data.raised = "none"
        /\ NESTED_BLOCKS_KEY \in DOMAIN user_state_data.result
        /\ LET components == user_state_data.result[NESTED_BLOCKS_KEY]
               kids == user_state_block.children
           IN /\ DOMAIN components = { str(kids[i].child_id) : i \in ResolvableChildren }
              /\ \A i \in ResolvableChildren :
                    components[str(kids[i].child_id)] = build_user_state_data(kids[i].block).result

(***************************************************************************)
(* Claims: step registry under edits                                       *)
(***************************************************************************)
\* The step instance in hand names a block the parent's children field does not
\* hold.
NotInTree ==
    /\ step.live
    /\ ~(\E j \in DOMAIN children : normalize_id(children[j]) = normalize_id(step.usage_id))

\* The step's cached sibling list still holds the step: it was computed while the
\* step was a child.
StaleView == step.siblings.computed /\ Present(step.siblings.value, step.usage_id)

\* C14 as claimed: when a step was removed from the tree and the cached view was
\* not refreshed, step_number and lonely_child of the removed step, read against
\* the stale view, raise ValueError.
C14_StaleViewRaises ==
    (last.op \in {"step_number", "lonely_child"} /\ NotInTree /\ StaleView) =>
        last.kind = "ValueError"

\* C14 as amended: step_number and lonely_child of a step that is no longer in the
\* tree answer from the view the instances cached, which is the parent's cached
\* step_ids: against a stale view that still lists the step they return without
\* error (the old position, lonely iff the stale list has one entry); they raise
\* ValueError only against a view that does not list the step, as one computed
\* after the removal does not.
C14_StaleViewAnswers ==
    (last.op \in {"step_number", "lonely_child"} /\ NotInTree) =>
        /\ step.siblings.computed
        /\ step_ids.computed
        /\ step.siblings.value = step_ids.value
        /\ ~Present(compute_step_ids(children), step.usage_id)
        /\ IF Present(step.siblings.value, step.usage_id)
           THEN /\ last.kind = "ok"
                /\ last.op = "step_number" =>
                      /\ last.num \in DOMAIN step.siblings.value
                      /\ step.siblings.value[last.num] = normalize_id(step.usage_id)
                /\ last.op = "lonely_child" => (last.flag <=> Len(step.siblings.value) = 1)
           ELSE last.kind = "ValueError"

\* The second of the listed steps was removed from the tree; read after the removal
\* against the stale list, its step_number is still 2.
C14_Witness ==
    /\ last.op = "step_number"
    /\ NotInTree
    /\ StaleView
    /\ last.kind = "ok"
    /\ last.num = 2
    /\ Len(step_ids.value) = Len(compute_step_ids(children)) + 1

\* C15: step_ids and steps are computed once per parent instance. A read leaves the
\* value on the instance; while the instance lives no step changes a value it
\* holds, whatever happens to the children field, and a read returns that value;
\* an instance that holds none computes step_ids from the children field as it is
\* at the read, and steps from step_ids.
C15_ComputedOncePerInstance ==
    [][ /\ (step_ids.computed /\ step_ids'.computed) => step_ids'.value = step_ids.value
        /\ (steps.computed /\ steps'.computed) => steps'.value = steps.value
        /\ (~step_ids.computed /\ step_ids'.computed) =>
              step_ids'.value = compute_step_ids(children)
        /\ (~steps.computed /\ steps'.computed) => steps'.value = step_ids'.value
        /\ (last'.op = "step_ids" /\ last' # last) =>
              /\ step_ids'.computed
              /\ last'.kind = "ok"
              /\ last'.num = Len(step_ids'.value)
        /\ (last'.op = "steps" /\ last' # last /\ last'.kind = "ok") =>
              /\ steps'.computed
              /\ last'.num = Len(steps'.value)
        /\ (step_ids.computed /\ ~step_ids'.computed) =>
              (~steps'.computed /\ ~step'.live /\ children' = children)
      ]_vars

\* step_ids was read again after a child was removed: the read returned the list of
\* the first read, one longer than the list the children field now gives.
C15_Witness ==
    /\ last.op = "step_ids"
    /\ step_ids.computed
    /\ last.num = Len(step_ids.value)
    /\ Len(step_ids.value) = Len(compute_step_ids(children)) + 1
    /\ steps.computed
    /\ steps.value = step_ids.value

\* C17: for a step with a non-empty authored title display_name_with_default
\* returns the title and reads neither lonely_child, step_number nor the parent's
\* step list, so it returns normally also for a step the parent does not list; it
\* raises only ValueError, and only for an untitled step the sibling list lacks.
C17_TitledStepNeverConsults ==
    [][ (last'.op = "display_name_with_default" /\ step'.live) =>
           /\ step'.display_name # <<>> =>
                 /\ last'.kind = "ok"
                 /\ last'.text = step'.display_name
                 /\ UNCHANGED <<step, step_ids, steps>>
           /\ last'.kind # "ok" =>
                 /\ last'.kind = "ValueError"
                 /\ step'.display_name = <<>>
                 /\ step'.siblings.computed
                 /\ ~Present(step'.siblings.value, step'.usage_id)
      ]_vars

\* A titled step the parent does not list was asked for its title: the title came
\* back and no list was computed on the way.
C17_Witness ==
    /\ last.op = "display_name_with_default"
    /\ last.kind = "ok"
    /\ last.text = CustomTitle
    /\ step.live
    /\ ~StepIsListed
    /\ ~step.siblings.computed
    /\ ~step_ids.computed

(***************************************************************************)
(* Claims: read-only, walk and answer resolution                           *)
(***************************************************************************)
\* C11 as claimed: the export job and the projection are read-only: no call
\* changes a block's field values, child lists or parent references, or a
\* submission record.
C11_ReadOnly == [][UNCHANGED <<user_state_block, treeVars>>]_vars

\* Every block from root down to n resolves.
RECURSIVE Resolves(_, _)
Resolves(root, n) ==
    \/ n = root
    \/ parent[n] # 0 /\ n \notin missing /\ Resolves(root, parent[n])

\* The blocks strictly between root (included) and n (excluded) on the way down.
Above(root, n) == { PathFrom(root, parent[n])[k] : k \in DOMAIN PathFrom(root, parent[n]) } \cup {root}

\* C13 as claimed: the walk returns exactly the blocks of the whole subtree under
\* the root, reachable through resolvable children, whose type is in the filter,
\* in pre-order, each once, also those that lie below another matching block.
C13_WholeSubtree ==
    blocks_to_include.called =>
        LET root == blocks_to_include.root
            classes == classes_of(blocks_to_include.block_types)
            found == blocks_to_include.blocks
        IN /\ { found[i] : i \in DOMAIN found }
                 = { n \in Nodes : Resolves(root, n) /\ isinstance(n, classes) }
           /\ \A i, j \in DOMAIN found :
                 i < j => Before(PathFrom(root, found[i]), PathFrom(root, found[j]))

\* C13 as amended: the walk returns exactly the blocks under the root, reachable
\* through resolvable children, whose type is in the filter and that have no
\* block of a filtered type above them in the walk, in pre-order, each once; it
\* does not descend below a matching block, so a matching block that lies below
\* another matching block is left out.
C13_OutermostMatches ==
    blocks_to_include.called =>
        LET root == blocks_to_include.root
            classes == classes_of(blocks_to_include.block_types)
            found == blocks_to_include.blocks
        IN /\ { found[i] : i \in DOMAIN found }
                 = { n \in Nodes : /\ Resolves(root, n)
                                   /\ isinstance(n, classes)
                                   /\ n # root => \A a \in Above(root, n) : ~isinstance(a, classes) }
           /\ \A i, j \in DOMAIN found :
                 /\ i < j => Before(PathFrom(root, found[i]), PathFrom(root, found[j]))
                 /\ found[i] \notin Above(root, found[j]) \/ found[j] = root

\* An MCQ block with an answer block below it, all types exported: the walk returns
\* the MCQ block and not the answer block.
C13_Witness ==
    /\ blocks_to_include.called
    /\ blocks_to_include.root = 1
    /\ blocks_to_include.block_types = <<>>
    /\ block_type[2] = "pb-mcq" /\ parent[2] = 1
    /\ block_type[3] = "pb-answer" /\ parent[3] = 2
    /\ missing = {}
    /\ 2 \in { blocks_to_include.blocks[i] : i \in DOMAIN blocks_to_include.blocks }
    /\ 3 \notin { blocks_to_include.blocks[i] : i \in DOMAIN blocks_to_include.blocks }

\* The choice children of the block of a row: an AnswerBlock has none.
ChoicesOf(n) == IF block_type[n] = "pb-answer" THEN <<>> ELSE choices

\* C16: the answer of an export row is the content of the first choice child of the
\* step whose value equals the submission's raw answer; when the step has no
\* choice children, or none has that value, it is the raw answer verbatim.
C16_AnswerResolution ==
    (export_result.called /\ export_result.kind = "returned") =>
        \A pair \in Surviving :
            LET raw == Record(pair).answer
                kids == ChoicesOf(export_result.blocks[pair[1]])
                hits == { i \in DOMAIN kids : kids[i].value = raw }
                shown == DataRows[Place(pair)][6]
            IN IF hits = {} THEN shown = raw
               ELSE \E i \in hits : /\ \A j \in hits : i <= j
                                    /\ shown = kids[i].content

\* An MCQ row shows the content of the first of two choices that carry the
\* submitted value, another MCQ row the raw answer no choice carries, and an
\* answer block's row the raw text.
C16_Witness ==
    /\ export_result.called
    /\ export_result.kind = "returned"
    /\ export_result.match_string = <<>>
    /\ Len(DataRows) = 4
    /\ DataRows[1][4] = "pb-mcq" /\ DataRows[1][6] = choices[1].content
    /\ choices[3].value = choices[1].value /\ choices[3].content # choices[1].content
    /\ DataRows[2][4] = "pb-mcq" /\ DataRows[2][6] = DOG
    /\ DataRows[3][4] = "pb-answer" /\ DataRows[3][6] = cat

(***************************************************************************)
(* Claims: report and preview                                              *)
(***************************************************************************)
\* C12: the rows handed to the report store are the fixed header row followed by
\* all data rows, and display_data is the first min(1000, n) of the n data rows,
\* in the same order and without the header: empty when there are no data rows.
C12_HeaderRowsAndPreview ==
    (export_result.called /\ export_result.kind = "returned") =>
        LET rows == export_result.rows
            n == Len(rows) - 1
            shown == export_result.display_data
        IN /\ rows[1] = <<"Section", "Subsection", "Unit", "Type", "Question", "Answer",
                          "Username">>
           /\ \A i \in 1..n : rows[i + 1] = DataRow(i)
           /\ Len(shown) = IF n < 1000 THEN n ELSE 1000
           /\ \A i \in DOMAIN shown : shown[i] = rows[i + 1]

\* An export of 1001 data rows: the store got 1002 rows, the preview has the first
\* 1000 data rows.
C12_Witness ==
    /\ export_result.called
    /\ Len(export_result.rows) = 1002
    /\ Len(export_result.display_data) = 1000
    /\ export_result.display_data[1000] = DataRow(1000)

====
